---- MODULE Spec2Model ----
(***************************************************************************)
(* Index naming, write routing and read planning of the Elasticsearch      *)
(* sampling store and dependency store.                                    *)
(*                                                                         *)
(* Strings are sequences of one-character strings, so that concatenation,  *)
(* strings.Replace and date formatting are computed character by           *)
(* character.  An instant is a number of hours since 2025-01-01T00:00Z;    *)
(* a time.Duration is a number of hours.                                   *)
(***************************************************************************)
EXTENDS Integers, Sequences, FiniteSets, TLC

----------------------------------------------------------------------------
(* Bounds of the model *)

\* instants are drawn from the days 0..MaxDay after the epoch of the model
MaxDay == 2
\* a date walk is followed for at most MaxWalk appended names
MaxWalk == 6
\* InsertThroughput is called with at most MaxThroughputs throughputs
MaxThroughputs == 2

HoursOfDay == {0, 23}
TimePoints == {24 * d + h : d \in 0 .. MaxDay, h \in HoursOfDay}
\* timestamps of dependency and service writes
WriteTimes == {1, 25}
\* search-engine major versions the client reports
Versions == {7, 8}

----------------------------------------------------------------------------
(* Strings *)

Range(s) == {s[i] : i \in 1 .. Len(s)}

Digits == <<"0", "1", "2", "3", "4", "5", "6", "7", "8", "9">>
Digit(n) == Digits[n + 1]
Pad2(n) == <<Digit((n \div 10) % 10), Digit(n % 10)>>
Pad4(n) == <<Digit((n \div 1000) % 10), Digit((n \div 100) % 10)>> \o Pad2(n % 100)

----------------------------------------------------------------------------
(* time.Time.UTC().Format(layout): the proleptic Gregorian calendar *)

\* days from 1970-01-01 to the epoch of the model, 2025-01-01
EpochDay == 20089

DayOf(t) == t \div 24
HourOf(t) == t % 24

\* civil date of a day number counted from 1970-01-01
CivilZ(day) == day + 719468
CivilEra(day) == CivilZ(day) \div 146097
CivilDoe(day) == CivilZ(day) - CivilEra(day) * 146097
CivilYoe(day) ==
    (CivilDoe(day) - (CivilDoe(day) \div 1460) + (CivilDoe(day) \div 36524)
        - (CivilDoe(day) \div 146096)) \div 365
CivilDoy(day) ==
    CivilDoe(day) - (365 * CivilYoe(day) + (CivilYoe(day) \div 4) - (CivilYoe(day) \div 100))
CivilMp(day) == (5 * CivilDoy(day) + 2) \div 153
DayOfMonth(day) == CivilDoy(day) - ((153 * CivilMp(day) + 2) \div 5) + 1
MonthOf(day) == IF CivilMp(day) < 10 THEN CivilMp(day) + 3 ELSE CivilMp(day) - 9
YearOf(day) ==
    CivilYoe(day) + CivilEra(day) * 400 + (IF MonthOf(day) <= 2 THEN 1 ELSE 0)

\* a layout is the sequence of its elements: the reference-time fields
\* "2006", "01", "02", "15" and literal characters
DailyLayout == <<"2006", "-", "01", "-", "02">>
HourlyLayout == <<"2006", "-", "01", "-", "02", "-", "15">>
Layouts == {DailyLayout, HourlyLayout}

FormatElement(e, t) ==
    CASE e = "2006" -> Pad4(YearOf(EpochDay + DayOf(t)))
      [] e = "01" -> Pad2(MonthOf(EpochDay + DayOf(t)))
      [] e = "02" -> Pad2(DayOfMonth(EpochDay + DayOf(t)))
      [] e = "15" -> Pad2(HourOf(t))
      [] OTHER -> <<e>>

RECURSIVE Format(_, _)
Format(layout, t) ==
    IF layout = <<>> THEN <<>>
    ELSE FormatElement(Head(layout), t) \o Format(Tail(layout), t)

----------------------------------------------------------------------------
(* package config *)

IndexPrefixSeparator == <<"-">>

\* IndexPrefix.Apply: the prefix is prepended to the base name
Apply(p, name) == p \o name

\* IndexWithDate formatting with the hourly layout whatever layout it is given
IndexWithDate_ignoresLayout(indexPrefix, indexDateLayout_, date) ==
    indexPrefix \o Format(HourlyLayout, date)

IndexWithDate(indexPrefix, indexDateLayout_, date) ==
    indexPrefix \o Format(indexDateLayout_, date)

\* strings.Index(s, "."), 0 when s holds no '.'
FirstDot(s) ==
    IF \E i \in 1 .. Len(s) : s[i] = "."
    THEN CHOOSE i \in 1 .. Len(s) : s[i] = "." /\ \A j \in 1 .. i - 1 : s[j] # "."
    ELSE 0

\* strings.Replace(s, ".", "-", -1): every dot replaced
ReplaceFirstDot_everyDot(s) ==
    [i \in 1 .. Len(s) |-> IF s[i] = "." THEN "-" ELSE s[i]]

\* strings.Replace(s, ".", "-", 1)
ReplaceFirstDot(s) ==
    IF FirstDot(s) = 0 THEN s
    ELSE SubSeq(s, 1, FirstDot(s) - 1) \o <<"-">> \o SubSeq(s, FirstDot(s) + 1, Len(s))

\* the wildcard without the dash that separates the name from the date
GetDataStreamLegacyWildcard_noDash(dataStreamName) ==
    ReplaceFirstDot(dataStreamName) \o <<"*">>

GetDataStreamLegacyWildcard(dataStreamName) ==
    ReplaceFirstDot(dataStreamName) \o <<"-", "*">>

----------------------------------------------------------------------------
(* Inputs *)

NoPrefix == <<>>
ProdPrefix == <<"p", "-">>
IndexPrefixes == {NoPrefix, ProdPrefix}

\* time.Duration values of IndexRolloverFrequency, in hours
RolloverFrequencies == {-48, -24, -12, -1, 0, 24}
Lookbacks == {24}
\* instants whose dated sampling index may exist in the cluster at start
ExistTimes == {24}

\* the inputs of the latest-index scan: lookbacks of one step, of one step and
\* a half and of two steps of a daily rollover, and two days that may exist
LatestLookbacks == {24, 36, 48}
LatestExistTimes == {0, 24}

\* the inputs of the dependency store, whose walk subtracts the frequency
DepRolloverFrequencies == {-24, 0, 1, 12, 24, 48}
DepLookbacks == {0, 24, 48}

\* the inputs of the naming functions: a prefix that contains a dot, and
\* every name of at most MaxNameLen characters beside the default names
DottedPrefix == <<"p", ".", "q", "-">>
NamePrefixes == {NoPrefix, ProdPrefix, DottedPrefix}
MaxNameLen == 3

\* the inputs of IndexWithDate: zones west and east of UTC, and the prefix
\* of the span indices
ZoneOffsets == {-5, 0, 9}
spanIndexPrefix == <<"j", "a", "e", "g", "e", "r", "-", "s", "p", "a", "n", "-">>
DatePrefixes == {NoPrefix, spanIndexPrefix}
NameAlphabet == {"a", ".", "-"}
spanDataStreamName == <<"j", "a", "e", "g", "e", "r", ".", "s", "p", "a", "n">>
isolatedSpanDataStreamName ==
    <<"j", "a", "e", "g", "e", "r", "-", "d", "s", "-", "s", "p", "a", "n">>

----------------------------------------------------------------------------
(* package samplingstore *)

samplingIndexBaseName ==
    <<"j", "a", "e", "g", "e", "r", "-", "s", "a", "m", "p", "l", "i", "n", "g">>
samplingDataStreamName ==
    <<"j", "a", "e", "g", "e", "r", ".", "s", "a", "m", "p", "l", "i", "n", "g">>
throughputType == "throughput-sampling"
probabilitiesType == "probabilities-sampling"

VARIABLES
    \* SamplingStore fields
    samplingIndexPrefix, indexDateLayout, indexRolloverFrequency, lookback,
    useDataStream,
    \* the feature gate jaeger.es.readLegacyWithDataStream of the process
    readLegacyWithDataStream,
    \* the cluster: names of the indices that exist
    esIndices,
    \* the call of the sampling store in progress and its locals
    pc, op, start, end, endTime, firstIndex, currentIndex, indices,
    now, earliestIndex, err, checked, requests,
    \* what the cluster answered to each IndexExists call of the call in progress
    answers,
    \* whether the context of the caller of the call in progress is done: its
    \* deadline has expired or it was cancelled
    callerCtxDone

samplingVars ==
    <<samplingIndexPrefix, indexDateLayout, indexRolloverFrequency, lookback,
      useDataStream, readLegacyWithDataStream, pc, op, start, end, endTime,
      firstIndex, currentIndex, indices, now, earliestIndex, err, checked, requests,
      answers, callerCtxDone>>

samplingConfig ==
    <<samplingIndexPrefix, indexDateLayout, indexRolloverFrequency, lookback,
      useDataStream, readLegacyWithDataStream>>

\* the prefix NewSamplingStore stores in samplingIndexPrefix
SamplingPrefix(p, ds) ==
    IF ds THEN Apply(p, samplingDataStreamName)
    ELSE Apply(p, samplingIndexBaseName) \o IndexPrefixSeparator

NewSamplingStore(p, layout, frequency, lb, ds) ==
    /\ samplingIndexPrefix = SamplingPrefix(p, ds)
    /\ indexDateLayout = layout
    /\ indexRolloverFrequency = frequency
    /\ lookback = lb
    /\ useDataStream = ds

SamplingIdle ==
    /\ pc = "idle"
    /\ op = "none"
    /\ start = 0
    /\ end = 0
    /\ endTime = 0
    /\ firstIndex = <<>>
    /\ currentIndex = <<>>
    /\ indices = <<>>
    /\ now = 0
    /\ earliestIndex = <<>>
    /\ err = <<>>
    /\ checked = <<>>
    /\ requests = <<>>
    /\ answers = <<>>
    /\ callerCtxDone = FALSE

\* getWriteIndex without its data-stream branch: the dated name in every mode
getWriteIndex_alwaysDated(ts) ==
    IndexWithDate(samplingIndexPrefix, indexDateLayout, ts)

getWriteIndex(ts) ==
    IF useDataStream THEN samplingIndexPrefix
    ELSE IndexWithDate(samplingIndexPrefix, indexDateLayout, ts)

\* the operation type chosen from the major version alone
OpType_versionOnly(ds, version) == IF version >= 8 THEN "create" ELSE ""

\* the operation type handed to Add
OpType(ds, version) == IF ds \/ version >= 8 THEN "create" ELSE ""

\* the request built by s.client().Index().Index(..).Type(..).BodyJson(..);
\* Id is never called, the document id is left empty
IndexRequest(indexName, type, ts, version) ==
    [index |-> indexName, type |-> type, timestamp |-> ts,
     opType |-> OpType(useDataStream, version), id |-> ""]

\* a call starts when the previous one has returned; its locals are fresh
Call(name) ==
    /\ pc = "idle"
    /\ op' = name

\* the call in progress returns to its caller and its locals are gone
Return ==
    /\ pc = "done"
    /\ pc' = "idle"
    /\ op' = "none"
    /\ start' = 0 /\ end' = 0 /\ endTime' = 0
    /\ firstIndex' = <<>> /\ currentIndex' = <<>> /\ indices' = <<>>
    /\ now' = 0 /\ earliestIndex' = <<>> /\ err' = <<>> /\ checked' = <<>>
    /\ answers' = <<>> /\ callerCtxDone' = FALSE
    /\ requests' = <<>>
    /\ UNCHANGED <<samplingConfig, esIndices>>

InsertThroughput(n, ts, version) ==
    /\ Call("InsertThroughput")
    /\ requests' = [i \in 1 .. n |->
                      IndexRequest(getWriteIndex(ts), throughputType, ts, version)]
    /\ pc' = "done"
    /\ start' = 0 /\ end' = 0 /\ endTime' = 0
    /\ firstIndex' = <<>> /\ currentIndex' = <<>> /\ indices' = <<>>
    /\ now' = ts /\ earliestIndex' = <<>> /\ err' = <<>> /\ checked' = <<>>
    /\ answers' = <<>> /\ callerCtxDone' = FALSE
    /\ UNCHANGED <<samplingConfig, esIndices>>

\* InsertProbabilitiesAndQPS keeping the write index it computed in the field
\* the names are derived from
InsertProbabilitiesAndQPS_keepsWriteIndex(ts, version) ==
    /\ Call("InsertProbabilitiesAndQPS")
    /\ requests' = <<IndexRequest(getWriteIndex(ts), probabilitiesType, ts, version)>>
    /\ samplingIndexPrefix' = getWriteIndex(ts)
    /\ pc' = "done"
    /\ start' = 0 /\ end' = 0 /\ endTime' = 0
    /\ firstIndex' = <<>> /\ currentIndex' = <<>> /\ indices' = <<>>
    /\ now' = ts /\ earliestIndex' = <<>> /\ err' = <<>> /\ checked' = <<>>
    /\ answers' = <<>> /\ callerCtxDone' = FALSE
    /\ UNCHANGED <<indexDateLayout, indexRolloverFrequency, lookback, useDataStream,
                   readLegacyWithDataStream, esIndices>>

InsertProbabilitiesAndQPS(ts, version) ==
    /\ Call("InsertProbabilitiesAndQPS")
    /\ requests' = <<IndexRequest(getWriteIndex(ts), probabilitiesType, ts, version)>>
    /\ pc' = "done"
    /\ start' = 0 /\ end' = 0 /\ endTime' = 0
    /\ firstIndex' = <<>> /\ currentIndex' = <<>> /\ indices' = <<>>
    /\ now' = ts /\ earliestIndex' = <<>> /\ err' = <<>> /\ checked' = <<>>
    /\ answers' = <<>> /\ callerCtxDone' = FALSE
    /\ UNCHANGED <<samplingConfig, esIndices>>

\* the data-stream branch without the append of the legacy wildcard
DataStreamIndices_noLegacy(prefix) == <<prefix>>

\* the data-stream branch of getReadIndices and getLatestIndices
DataStreamIndices(prefix) == <<prefix, GetDataStreamLegacyWildcard(prefix)>>

\* GetThroughput up to the head of the loop of getReadIndices
GetThroughput(s, e) ==
    /\ Call("GetThroughput")
    /\ start' = s
    /\ end' = e
    /\ endTime' = e
    /\ IF useDataStream
       THEN /\ indices' = DataStreamIndices(samplingIndexPrefix)
            /\ firstIndex' = <<>>
            /\ currentIndex' = <<>>
            /\ pc' = "done"
       ELSE /\ indices' = <<>>
            /\ firstIndex' = IndexWithDate(samplingIndexPrefix, indexDateLayout, s)
            /\ currentIndex' = IndexWithDate(samplingIndexPrefix, indexDateLayout, e)
            /\ pc' = "walk"
    /\ now' = 0 /\ earliestIndex' = <<>> /\ err' = <<>> /\ checked' = <<>>
    /\ answers' = <<>> /\ callerCtxDone' = FALSE
    /\ requests' = <<>>
    /\ UNCHANGED <<samplingConfig, esIndices>>

\* the loop of getReadIndices testing its condition after the body: the
\* first iteration runs even when the two names are equal
getReadIndicesStep_testsAfterBody ==
    /\ pc = "walk"
    /\ currentIndex # firstIndex \/ indices = <<>>
    /\ Len(indices) < MaxWalk
    /\ indices' = Append(indices, currentIndex)
    /\ endTime' = endTime + indexRolloverFrequency
    /\ currentIndex' =
         IndexWithDate(samplingIndexPrefix, indexDateLayout,
                       endTime + indexRolloverFrequency)
    /\ UNCHANGED <<samplingConfig, esIndices, pc, op, start, end, firstIndex,
                   now, earliestIndex, err, checked, requests, answers,
                   callerCtxDone>>

\* one iteration of the loop of getReadIndices
getReadIndicesStep ==
    /\ pc = "walk"
    /\ currentIndex # firstIndex
    /\ Len(indices) < MaxWalk
    /\ indices' = Append(indices, currentIndex)
    /\ endTime' = endTime + indexRolloverFrequency
    /\ currentIndex' =
         IndexWithDate(samplingIndexPrefix, indexDateLayout,
                       endTime + indexRolloverFrequency)
    /\ UNCHANGED <<samplingConfig, esIndices, pc, op, start, end, firstIndex,
                   now, earliestIndex, err, checked, requests, answers,
                   callerCtxDone>>

\* the exit of the loop of getReadIndices putting the boundary name in front
getReadIndicesReturn_boundaryFirst ==
    /\ pc = "walk"
    /\ currentIndex = firstIndex
    /\ indices' = <<firstIndex>> \o indices
    /\ pc' = "done"
    /\ UNCHANGED <<samplingConfig, esIndices, op, start, end, endTime, firstIndex,
                   currentIndex, now, earliestIndex, err, checked, requests,
                   answers, callerCtxDone>>

\* the exit of the loop of getReadIndices and the return to GetThroughput
getReadIndicesReturn ==
    /\ pc = "walk"
    /\ currentIndex = firstIndex
    /\ indices' = Append(indices, firstIndex)
    /\ pc' = "done"
    /\ UNCHANGED <<samplingConfig, esIndices, op, start, end, endTime, firstIndex,
                   currentIndex, now, earliestIndex, err, checked, requests,
                   answers, callerCtxDone>>

\* GetLatestProbabilities without the data-stream branch of getLatestIndices:
\* the scan starts in every mode
GetLatestProbabilities_alwaysScans(t) ==
    /\ Call("GetLatestProbabilities")
    /\ indices' = <<>>
    /\ now' = t
    /\ earliestIndex' = IndexWithDate(samplingIndexPrefix, indexDateLayout, t - lookback)
    /\ pc' = "scan"
    /\ start' = 0 /\ end' = 0 /\ endTime' = 0
    /\ firstIndex' = <<>> /\ currentIndex' = <<>>
    /\ err' = <<>> /\ checked' = <<>> /\ requests' = <<>>
    /\ answers' = <<>> /\ callerCtxDone' = FALSE
    /\ UNCHANGED <<samplingConfig, esIndices>>

\* GetLatestProbabilities up to the head of the loop of getLatestIndices
GetLatestProbabilities(t) ==
    /\ Call("GetLatestProbabilities")
    /\ IF useDataStream
       THEN /\ indices' = DataStreamIndices(samplingIndexPrefix)
            /\ now' = 0
            /\ earliestIndex' = <<>>
            /\ pc' = "done"
       ELSE /\ indices' = <<>>
            /\ now' = t
            /\ earliestIndex' =
                 IndexWithDate(samplingIndexPrefix, indexDateLayout, t - lookback)
            /\ pc' = "scan"
    /\ start' = 0 /\ end' = 0 /\ endTime' = 0
    /\ firstIndex' = <<>> /\ currentIndex' = <<>>
    /\ err' = <<>> /\ checked' = <<>> /\ requests' = <<>>
    /\ answers' = <<>> /\ callerCtxDone' = FALSE
    /\ UNCHANGED <<samplingConfig, esIndices>>

\* fmt.Errorf(message + ": %w", e): an error is the chain of its messages,
\* outermost first, ending with the error it wraps; nil is the empty chain
Errorf(message, e) == <<message>> \o e

\* the error a failed call of the client returns
ioError == <<"io_error">>

\* the answer of IndexExists(indexName).Do(ctx); fails says whether the call
\* returns an error
IndexExistsAnswer(indexName, fails) ==
    IF fails THEN "error" ELSE IF indexName \in esIndices THEN "true" ELSE "false"

\* the caller of GetLatestProbabilities gives up while getLatestIndices scans;
\* the scan runs on context.Background() and is not told
CallerContextDone ==
    /\ pc = "scan"
    /\ ~callerCtxDone
    /\ callerCtxDone' = TRUE
    /\ UNCHANGED <<samplingConfig, esIndices, pc, op, start, end, endTime, firstIndex,
                   currentIndex, indices, now, earliestIndex, err, checked, requests,
                   answers>>

\* the loop of getLatestIndices reading a failed IndexExists call as "absent"
\* and going on
getLatestIndicesStep_ignoresError(fails) ==
    /\ pc = "scan"
    /\ Len(checked) < MaxWalk
    /\ currentIndex' = IndexWithDate(samplingIndexPrefix, indexDateLayout, now)
    /\ checked' = Append(checked, currentIndex')
    /\ answers' = Append(answers, IndexExistsAnswer(currentIndex', fails))
    /\ IF ~fails /\ currentIndex' \in esIndices
       THEN /\ err' = <<>>
            /\ indices' = <<currentIndex'>>
            /\ pc' = "done"
            /\ now' = now
       ELSE IF currentIndex' = earliestIndex
       THEN /\ err' = Errorf("failed to get latest indices",
                             <<"falied to find latest index">>)
            /\ indices' = <<>>
            /\ pc' = "done"
            /\ now' = now
       ELSE /\ err' = <<>>
            /\ indices' = <<>>
            /\ pc' = "scan"
            /\ now' = now + indexRolloverFrequency
    /\ UNCHANGED <<samplingConfig, esIndices, op, start, end, endTime, firstIndex,
                   earliestIndex, requests, callerCtxDone>>

\* one iteration of the loop of getLatestIndices, and on its return the
\* return of GetLatestProbabilities, which wraps the error; fails says whether
\* the IndexExists call returns an error
getLatestIndicesStep(fails) ==
    /\ pc = "scan"
    /\ Len(checked) < MaxWalk
    /\ currentIndex' = IndexWithDate(samplingIndexPrefix, indexDateLayout, now)
    /\ checked' = Append(checked, currentIndex')
    /\ answers' = Append(answers, IndexExistsAnswer(currentIndex', fails))
    /\ IF fails
       THEN /\ err' = Errorf("failed to get latest indices",
                             Errorf("failed to check index existence", ioError))
            /\ indices' = <<>>
            /\ pc' = "done"
            /\ now' = now
       ELSE IF currentIndex' \in esIndices
       THEN /\ err' = <<>>
            /\ indices' = <<currentIndex'>>
            /\ pc' = "done"
            /\ now' = now
       ELSE IF currentIndex' = earliestIndex
       THEN /\ err' = Errorf("failed to get latest indices",
                             <<"falied to find latest index">>)
            /\ indices' = <<>>
            /\ pc' = "done"
            /\ now' = now
       ELSE /\ err' = <<>>
            /\ indices' = <<>>
            /\ pc' = "scan"
            /\ now' = now + indexRolloverFrequency
    /\ UNCHANGED <<samplingConfig, esIndices, op, start, end, endTime, firstIndex,
                   earliestIndex, requests, callerCtxDone>>

----------------------------------------------------------------------------
(* package spanstore: the service/operation writer *)

serviceType == "service"
serviceIndexBaseName ==
    <<"j", "a", "e", "g", "e", "r", "-", "s", "e", "r", "v", "i", "c", "e">>
serviceDataStreamName ==
    <<"j", "a", "e", "g", "e", "r", ".", "s", "e", "r", "v", "i", "c", "e">>

Services == {"service"}
Operations == {"operation"}

VARIABLES
    \* the in-process cache of ServiceOperationStorage: the keys written
    serviceCache

\* the hash of a service and operation, used as document id
ServiceHash(service, operation) ==
    IF service = "service" /\ operation = "operation"
    THEN "de3b5a8f1a79989d" ELSE "0000000000000000"

\* the write target the span writer hands to writeService
serviceWriteIndex(p, ts) ==
    IF useDataStream THEN Apply(p, serviceDataStreamName)
    ELSE IndexWithDate(Apply(p, serviceIndexBaseName) \o IndexPrefixSeparator,
                       indexDateLayout, ts)

ServiceRequest(indexName, service, operation, ts) ==
    [index |-> indexName, type |-> serviceType, timestamp |-> ts,
     opType |-> IF useDataStream THEN "create" ELSE "",
     id |-> IF useDataStream THEN "" ELSE ServiceHash(service, operation)]

\* writeService without the cache: every call submits its request
writeService_noCache(indexName, service, operation, ts) ==
    /\ Call("writeService")
    /\ requests' = <<ServiceRequest(indexName, service, operation, ts)>>
    /\ serviceCache' = serviceCache
    /\ pc' = "done"
    /\ start' = 0 /\ end' = 0 /\ endTime' = 0
    /\ firstIndex' = <<>> /\ currentIndex' = <<>> /\ indices' = <<>>
    /\ now' = ts /\ earliestIndex' = <<>> /\ err' = <<>> /\ checked' = <<>>
    /\ answers' = <<>> /\ callerCtxDone' = FALSE
    /\ UNCHANGED <<samplingConfig, esIndices>>

writeService(indexName, service, operation, ts) ==
    /\ Call("writeService")
    /\ IF <<indexName, ServiceHash(service, operation)>> \in serviceCache
       THEN /\ requests' = <<>>
            /\ serviceCache' = serviceCache
       ELSE /\ requests' = <<ServiceRequest(indexName, service, operation, ts)>>
            /\ serviceCache' =
                 serviceCache \cup {<<indexName, ServiceHash(service, operation)>>}
    /\ pc' = "done"
    /\ start' = 0 /\ end' = 0 /\ endTime' = 0
    /\ firstIndex' = <<>> /\ currentIndex' = <<>> /\ indices' = <<>>
    /\ now' = ts /\ earliestIndex' = <<>> /\ err' = <<>> /\ checked' = <<>>
    /\ answers' = <<>> /\ callerCtxDone' = FALSE
    /\ UNCHANGED <<samplingConfig, esIndices>>

----------------------------------------------------------------------------
(* package depstore *)

dependencyType == "dependencies"
dependencyIndexBaseName ==
    <<"j", "a", "e", "g", "e", "r", "-", "d", "e", "p", "e", "n", "d", "e", "n",
      "c", "i", "e", "s">>

Writers == {1, 2}

VARIABLES
    \* DependencyStore fields
    dependencyIndexPrefix, depIndexDateLayout, depIndexRolloverFrequency,
    useReadWriteAliases,
    \* per concurrent call of WriteDependencies: position, arguments, locals,
    \* returned error and the client calls issued so far
    wpc, wts, windexName, werr, wcalls,
    \* the call of GetDependencies in progress: position, arguments endTs and
    \* lookback, and the locals of getReadIndices (depCursor is its endTs)
    depPc, depEndTs, depLookback, depCursor, depFirstIndex, depCurrentIndex,
    depIndices

VARIABLES
    \* the last call of GetDataStreamLegacyWildcard: its argument and its result
    wildcardName, wildcardPattern,
    \* the last call of IndexWithDate: its arguments and its result
    datePrefix, dateLayout, dateArg, dateName

depConfig ==
    <<dependencyIndexPrefix, depIndexDateLayout, depIndexRolloverFrequency,
      useReadWriteAliases>>
depReadVars ==
    <<depPc, depEndTs, depLookback, depCursor, depFirstIndex, depCurrentIndex,
      depIndices>>
depVars == <<depConfig, wpc, wts, windexName, werr, wcalls, depReadVars>>
dateVars == <<datePrefix, dateLayout, dateArg, dateName>>
nameVars == <<wildcardName, wildcardPattern, dateVars>>

vars == <<samplingVars, esIndices, serviceCache, depVars, nameVars>>

NewDependencyStore(p, layout, frequency, aliases) ==
    /\ dependencyIndexPrefix = Apply(p, dependencyIndexBaseName) \o IndexPrefixSeparator
    /\ depIndexDateLayout = layout
    /\ depIndexRolloverFrequency = frequency
    /\ useReadWriteAliases = aliases

DepReadIdle ==
    /\ depPc = "idle"
    /\ depEndTs = 0
    /\ depLookback = 0
    /\ depCursor = 0
    /\ depFirstIndex = <<>>
    /\ depCurrentIndex = <<>>
    /\ depIndices = <<>>

NoWildcardCall ==
    /\ wildcardName = <<>>
    /\ wildcardPattern = <<>>

NoIndexWithDateCall ==
    /\ datePrefix = <<>>
    /\ dateLayout = <<>>
    /\ dateArg = [instant |-> 0, offset |-> 0]
    /\ dateName = <<>>

DepIdle ==
    /\ wpc = [w \in Writers |-> "idle"]
    /\ wts = [w \in Writers |-> 0]
    /\ windexName = [w \in Writers |-> <<>>]
    /\ werr = [w \in Writers |-> "nil"]
    /\ wcalls = [w \in Writers |-> <<>>]
    /\ DepReadIdle

\* getWriteIndex without its alias branch: the dated name in every mode
depGetWriteIndex_alwaysDated(ts) ==
    IndexWithDate(dependencyIndexPrefix, depIndexDateLayout, ts)

depGetWriteIndex(ts) ==
    IF useReadWriteAliases THEN dependencyIndexPrefix \o <<"w", "r", "i", "t", "e">>
    ELSE IndexWithDate(dependencyIndexPrefix, depIndexDateLayout, ts)

\* a call of the client as the cluster sees it, with the error it answers
ClientCall(name, indexName, error) == [call |-> name, index |-> indexName, err |-> error]

\* WriteDependencies without its call of createIndex
WriteDependencies_skipsCreateIndex(w, ts) ==
    /\ wpc[w] \in {"idle", "done"}
    /\ wts' = [wts EXCEPT ![w] = ts]
    /\ windexName' = [windexName EXCEPT ![w] = depGetWriteIndex(ts)]
    /\ werr' = [werr EXCEPT ![w] = "nil"]
    /\ wcalls' = [wcalls EXCEPT ![w] = <<>>]
    /\ wpc' = [wpc EXCEPT ![w] = "write"]
    /\ UNCHANGED <<depConfig, esIndices, depReadVars>>

\* WriteDependencies up to the first client call of createIndex
WriteDependencies(w, ts) ==
    /\ wpc[w] \in {"idle", "done"}
    /\ wts' = [wts EXCEPT ![w] = ts]
    /\ windexName' = [windexName EXCEPT ![w] = depGetWriteIndex(ts)]
    /\ werr' = [werr EXCEPT ![w] = "nil"]
    /\ wcalls' = [wcalls EXCEPT ![w] = <<>>]
    /\ wpc' = [wpc EXCEPT ![w] = IF useReadWriteAliases THEN "write" ELSE "exists"]
    /\ UNCHANGED <<depConfig, esIndices, depReadVars>>

\* createIndex dropping the error of IndexExists and reading its answer as
\* "absent"
createIndexExists_ignoresError(w, fails) ==
    /\ wpc[w] = "exists"
    /\ wcalls' = [wcalls EXCEPT ![w] =
                    Append(@,
                    ClientCall("IndexExists", windexName[w],
                               IF fails THEN "io_error" ELSE "nil"))]
    /\ werr' = werr
    /\ wpc' = [wpc EXCEPT ![w] =
                 IF ~fails /\ windexName[w] \in esIndices THEN "write" ELSE "create"]
    /\ UNCHANGED <<depConfig, esIndices, wts, windexName, depReadVars>>

\* createIndex: the IndexExists call and what follows its answer
createIndexExists(w, fails) ==
    /\ wpc[w] = "exists"
    /\ wcalls' = [wcalls EXCEPT ![w] = Append(@,
                    ClientCall("IndexExists", windexName[w],
                               IF fails THEN "io_error" ELSE "nil"))]
    /\ IF fails
       THEN /\ werr' = [werr EXCEPT ![w] = "io_error"]
            /\ wpc' = [wpc EXCEPT ![w] = "done"]
       ELSE /\ werr' = werr
            /\ wpc' = [wpc EXCEPT ![w] =
                         IF windexName[w] \in esIndices THEN "write" ELSE "create"]
    /\ UNCHANGED <<depConfig, esIndices, wts, windexName, depReadVars>>

\* the error CreateIndex answers with: an i/o failure, a conflict when the
\* index exists by now, or none
CreateIndexError(indexName, fails) ==
    IF fails THEN "io_error"
    ELSE IF indexName \in esIndices THEN "resource_already_exists_exception"
    ELSE "nil"

\* createIndex: the CreateIndex call, whose error is returned as it is
createIndexCreate(w, fails) ==
    /\ wpc[w] = "create"
    /\ wcalls' = [wcalls EXCEPT ![w] = Append(@,
                    ClientCall("CreateIndex", windexName[w],
                               CreateIndexError(windexName[w], fails)))]
    /\ werr' = [werr EXCEPT ![w] = CreateIndexError(windexName[w], fails)]
    /\ esIndices' = IF CreateIndexError(windexName[w], fails) = "nil"
                    THEN esIndices \cup {windexName[w]} ELSE esIndices
    /\ wpc' = [wpc EXCEPT ![w] =
                 IF CreateIndexError(windexName[w], fails) = "nil" THEN "write" ELSE "done"]
    /\ UNCHANGED <<depConfig, wts, windexName, depReadVars>>

writeDependenciesToIndex(w) ==
    /\ wpc[w] = "write"
    /\ wcalls' = [wcalls EXCEPT ![w] = Append(@, ClientCall("Index", windexName[w], "nil"))]
    /\ wpc' = [wpc EXCEPT ![w] = "done"]
    /\ UNCHANGED <<depConfig, esIndices, wts, windexName, werr, depReadVars>>

\* GetDependencies without the alias branch of getReadIndices: the date walk
\* starts in every mode
GetDependencies_alwaysWalks(endTs, lb) ==
    /\ depPc = "idle"
    /\ depEndTs' = endTs
    /\ depLookback' = lb
    /\ depCursor' = endTs
    /\ depIndices' = <<>>
    /\ depFirstIndex' =
         IndexWithDate(dependencyIndexPrefix, depIndexDateLayout, endTs - lb)
    /\ depCurrentIndex' =
         IndexWithDate(dependencyIndexPrefix, depIndexDateLayout, endTs)
    /\ depPc' = "walk"
    /\ UNCHANGED <<depConfig, esIndices, wpc, wts, windexName, werr, wcalls>>

\* GetDependencies up to the head of the loop of getReadIndices
GetDependencies(endTs, lb) ==
    /\ depPc = "idle"
    /\ depEndTs' = endTs
    /\ depLookback' = lb
    /\ depCursor' = endTs
    /\ IF useReadWriteAliases
       THEN /\ depIndices' = <<dependencyIndexPrefix \o <<"r", "e", "a", "d">>>>
            /\ depFirstIndex' = <<>>
            /\ depCurrentIndex' = <<>>
            /\ depPc' = "done"
       ELSE /\ depIndices' = <<>>
            /\ depFirstIndex' =
                 IndexWithDate(dependencyIndexPrefix, depIndexDateLayout, endTs - lb)
            /\ depCurrentIndex' =
                 IndexWithDate(dependencyIndexPrefix, depIndexDateLayout, endTs)
            /\ depPc' = "walk"
    /\ UNCHANGED <<depConfig, esIndices, wpc, wts, windexName, werr, wcalls>>

\* one iteration of the loop of DependencyStore.getReadIndices
depGetReadIndicesStep ==
    /\ depPc = "walk"
    /\ depCurrentIndex # depFirstIndex
    /\ Len(depIndices) < MaxWalk
    /\ depIndices' = Append(depIndices, depCurrentIndex)
    /\ depCursor' = depCursor - depIndexRolloverFrequency
    /\ depCurrentIndex' =
         IndexWithDate(dependencyIndexPrefix, depIndexDateLayout,
                       depCursor - depIndexRolloverFrequency)
    /\ UNCHANGED <<depConfig, esIndices, wpc, wts, windexName, werr, wcalls,
                   depPc, depEndTs, depLookback, depFirstIndex>>

\* the exit of the loop of DependencyStore.getReadIndices and the return to
\* GetDependencies
depGetReadIndicesReturn ==
    /\ depPc = "walk"
    /\ depCurrentIndex = depFirstIndex
    /\ depIndices' = Append(depIndices, depFirstIndex)
    /\ depPc' = "done"
    /\ UNCHANGED <<depConfig, esIndices, wpc, wts, windexName, werr, wcalls,
                   depEndTs, depLookback, depCursor, depFirstIndex, depCurrentIndex>>

\* GetDependencies returns to its caller and its locals are gone
GetDependenciesReturn ==
    /\ depPc = "done"
    /\ depPc' = "idle"
    /\ depEndTs' = 0 /\ depLookback' = 0 /\ depCursor' = 0
    /\ depFirstIndex' = <<>> /\ depCurrentIndex' = <<>> /\ depIndices' = <<>>
    /\ UNCHANGED <<depConfig, esIndices, wpc, wts, windexName, werr, wcalls>>

----------------------------------------------------------------------------
(* package config: a call of GetDataStreamLegacyWildcard *)

LegacyWildcardCall(name) ==
    /\ wildcardName' = name
    /\ wildcardPattern' = GetDataStreamLegacyWildcard(name)
    /\ UNCHANGED dateVars

\* a time.Time: an instant and the offset, in hours, of the zone it is
\* expressed in
Time(instant, offset) == [instant |-> instant, offset |-> offset]

\* Time.UTC() leaving the value in its zone
UTC_keepsZone(date) == date

\* Time.UTC(): the same instant expressed in UTC
UTC(date) == Time(date.instant, 0)

\* Time.Format(layout): the wall clock of the value in its zone
TimeFormat(date, layout) == Format(layout, date.instant + date.offset)

\* IndexWithDate on a time.Time of any zone; IndexWithDate above is its
\* restriction to values expressed in UTC
IndexWithDateOfTime(indexPrefix, layout, date) ==
    indexPrefix \o TimeFormat(UTC(date), layout)

IndexWithDateCall(indexPrefix, layout, date) ==
    /\ datePrefix' = indexPrefix
    /\ dateLayout' = layout
    /\ dateArg' = date
    /\ dateName' = IndexWithDateOfTime(indexPrefix, layout, date)
    /\ UNCHANGED <<wildcardName, wildcardPattern>>

----------------------------------------------------------------------------
(* The sampling store and the service writer, called by one caller *)

Init ==
    /\ \E p \in IndexPrefixes, layout \in Layouts, frequency \in RolloverFrequencies,
          lb \in Lookbacks, ds \in BOOLEAN :
          /\ NewSamplingStore(p, layout, frequency, lb, ds)
          /\ esIndices \in SUBSET {IndexWithDate(SamplingPrefix(p, FALSE), layout, t) :
                                     t \in ExistTimes}
          /\ NewDependencyStore(p, layout, 24, FALSE)
    /\ readLegacyWithDataStream \in BOOLEAN
    /\ SamplingIdle
    /\ serviceCache = {}
    /\ DepIdle
    /\ NoWildcardCall
    /\ NoIndexWithDateCall

Next ==
    \/ \E n \in 0 .. MaxThroughputs, ts \in TimePoints, version \in Versions :
          InsertThroughput(n, ts, version) /\ UNCHANGED <<serviceCache, depVars, nameVars>>
    \/ \E ts \in TimePoints, version \in Versions :
          InsertProbabilitiesAndQPS(ts, version) /\ UNCHANGED <<serviceCache, depVars, nameVars>>
    \/ \E s \in TimePoints, e \in TimePoints :
          GetThroughput(s, e) /\ UNCHANGED <<serviceCache, depVars, nameVars>>
    \/ getReadIndicesStep /\ UNCHANGED <<serviceCache, depVars, nameVars>>
    \/ getReadIndicesReturn /\ UNCHANGED <<serviceCache, depVars, nameVars>>
    \/ \E t \in TimePoints :
          GetLatestProbabilities(t) /\ UNCHANGED <<serviceCache, depVars, nameVars>>
    \/ \E fails \in BOOLEAN :
          getLatestIndicesStep(fails) /\ UNCHANGED <<serviceCache, depVars, nameVars>>
    \/ \E service \in Services, operation \in Operations, ts \in WriteTimes :
          writeService(serviceWriteIndex(NoPrefix, ts), service, operation, ts)
            /\ UNCHANGED <<depVars, nameVars>>
    \/ Return /\ UNCHANGED <<serviceCache, depVars, nameVars>>

Spec == Init /\ [][Next]_vars

----------------------------------------------------------------------------
(* The dependency store written by two concurrent callers, beside the      *)
(* writes of the sampling store                                            *)

InitDep ==
    /\ \E p \in IndexPrefixes, layout \in Layouts, aliases \in BOOLEAN :
          /\ NewSamplingStore(p, layout, -24, 24, FALSE)
          /\ NewDependencyStore(p, layout, 24, aliases)
    /\ readLegacyWithDataStream = TRUE
    /\ esIndices = {}
    /\ SamplingIdle
    /\ serviceCache = {}
    /\ DepIdle
    /\ NoWildcardCall
    /\ NoIndexWithDateCall

NextDep ==
    \/ \E w \in Writers, ts \in WriteTimes :
          WriteDependencies(w, ts) /\ UNCHANGED <<samplingVars, serviceCache, nameVars>>
    \/ \E w \in Writers, fails \in BOOLEAN :
          createIndexExists(w, fails) /\ UNCHANGED <<samplingVars, serviceCache, nameVars>>
    \/ \E w \in Writers, fails \in BOOLEAN :
          createIndexCreate(w, fails) /\ UNCHANGED <<samplingVars, serviceCache, nameVars>>
    \/ \E w \in Writers :
          writeDependenciesToIndex(w) /\ UNCHANGED <<samplingVars, serviceCache, nameVars>>
    \/ \E ts \in WriteTimes, version \in Versions :
          InsertThroughput(1, ts, version) /\ UNCHANGED <<serviceCache, depVars, nameVars>>
    \/ \E ts \in WriteTimes, version \in Versions :
          InsertProbabilitiesAndQPS(ts, version) /\ UNCHANGED <<serviceCache, depVars, nameVars>>
    \/ Return /\ UNCHANGED <<serviceCache, depVars, nameVars>>

SpecDep == InitDep /\ [][NextDep]_vars

----------------------------------------------------------------------------
(* The latest-index scan of the sampling store, with a caller that may give *)
(* up while it runs                                                         *)

InitLatest ==
    /\ \E p \in IndexPrefixes, layout \in Layouts, frequency \in RolloverFrequencies,
          lb \in LatestLookbacks, ds \in BOOLEAN :
          /\ NewSamplingStore(p, layout, frequency, lb, ds)
          /\ esIndices \in SUBSET {IndexWithDate(SamplingPrefix(p, FALSE), layout, t) :
                                     t \in LatestExistTimes}
          /\ NewDependencyStore(p, layout, 24, FALSE)
    /\ readLegacyWithDataStream = TRUE
    /\ SamplingIdle
    /\ serviceCache = {}
    /\ DepIdle
    /\ NoWildcardCall
    /\ NoIndexWithDateCall

NextLatest ==
    \/ \E t \in TimePoints :
          GetLatestProbabilities(t) /\ UNCHANGED <<serviceCache, depVars, nameVars>>
    \/ \E fails \in BOOLEAN :
          getLatestIndicesStep(fails) /\ UNCHANGED <<serviceCache, depVars, nameVars>>
    \/ CallerContextDone /\ UNCHANGED <<serviceCache, depVars, nameVars>>
    \/ Return /\ UNCHANGED <<serviceCache, depVars, nameVars>>

SpecLatest == InitLatest /\ [][NextLatest]_vars

----------------------------------------------------------------------------
(* The reads of the dependency store *)

InitDepRead ==
    /\ \E p \in IndexPrefixes, layout \in Layouts,
          frequency \in DepRolloverFrequencies, aliases \in BOOLEAN :
          /\ NewSamplingStore(p, layout, -24, 24, FALSE)
          /\ NewDependencyStore(p, layout, frequency, aliases)
    /\ readLegacyWithDataStream = TRUE
    /\ esIndices = {}
    /\ SamplingIdle
    /\ serviceCache = {}
    /\ DepIdle
    /\ NoWildcardCall
    /\ NoIndexWithDateCall

NextDepRead ==
    \/ \E endTs \in TimePoints, lb \in DepLookbacks :
          GetDependencies(endTs, lb) /\ UNCHANGED <<samplingVars, serviceCache, nameVars>>
    \/ depGetReadIndicesStep /\ UNCHANGED <<samplingVars, serviceCache, nameVars>>
    \/ depGetReadIndicesReturn /\ UNCHANGED <<samplingVars, serviceCache, nameVars>>
    \/ GetDependenciesReturn /\ UNCHANGED <<samplingVars, serviceCache, nameVars>>

SpecDepRead == InitDepRead /\ [][NextDepRead]_vars

----------------------------------------------------------------------------
(* The naming functions: the names a store writes and reads under every    *)
(* prefix, and GetDataStreamLegacyWildcard applied to every name           *)

DataStreamNames ==
    UNION {[1 .. k -> NameAlphabet] : k \in 0 .. MaxNameLen}
      \cup {spanDataStreamName, serviceDataStreamName, samplingDataStreamName,
            isolatedSpanDataStreamName}

InitNames ==
    /\ \E p \in NamePrefixes, layout \in Layouts, ds \in BOOLEAN :
          /\ NewSamplingStore(p, layout, -24, 24, ds)
          /\ NewDependencyStore(p, layout, 24, FALSE)
    /\ readLegacyWithDataStream = TRUE
    /\ esIndices = {}
    /\ SamplingIdle
    /\ serviceCache = {}
    /\ DepIdle
    /\ NoWildcardCall
    /\ NoIndexWithDateCall

NextNames ==
    \/ \E name \in DataStreamNames :
          LegacyWildcardCall(name)
            /\ UNCHANGED <<samplingVars, esIndices, serviceCache, depVars>>
    \/ \E ts \in WriteTimes, version \in Versions :
          InsertThroughput(1, ts, version) /\ UNCHANGED <<serviceCache, depVars, nameVars>>
    \/ \E ts \in WriteTimes, version \in Versions :
          InsertProbabilitiesAndQPS(ts, version)
            /\ UNCHANGED <<serviceCache, depVars, nameVars>>
    \/ \E s \in WriteTimes, e \in WriteTimes :
          GetThroughput(s, e) /\ UNCHANGED <<serviceCache, depVars, nameVars>>
    \/ getReadIndicesStep /\ UNCHANGED <<serviceCache, depVars, nameVars>>
    \/ getReadIndicesReturn /\ UNCHANGED <<serviceCache, depVars, nameVars>>
    \/ Return /\ UNCHANGED <<serviceCache, depVars, nameVars>>

SpecNames == InitNames /\ [][NextNames]_vars

----------------------------------------------------------------------------
(* IndexWithDate applied to instants expressed in several zones *)

InitDates ==
    /\ \E p \in IndexPrefixes, layout \in Layouts :
          /\ NewSamplingStore(p, layout, -24, 24, FALSE)
          /\ NewDependencyStore(p, layout, 24, FALSE)
    /\ readLegacyWithDataStream = TRUE
    /\ esIndices = {}
    /\ SamplingIdle
    /\ serviceCache = {}
    /\ DepIdle
    /\ NoWildcardCall
    /\ NoIndexWithDateCall

NextDates ==
    \E p \in DatePrefixes, layout \in Layouts, t \in TimePoints, o \in ZoneOffsets :
       IndexWithDateCall(p, layout, Time(t, o))
         /\ UNCHANGED <<samplingVars, esIndices, serviceCache, depVars>>

SpecDates == InitDates /\ [][NextDates]_vars

----------------------------------------------------------------------------
(* One caller reading the same range from both stores, built from one      *)
(* configuration: GetThroughput(start, end), then GetDependencies(end,     *)
(* end - start)                                                            *)

InitPlans ==
    /\ \E p \in IndexPrefixes, layout \in Layouts, frequency \in RolloverFrequencies :
          /\ NewSamplingStore(p, layout, frequency, 24, FALSE)
          /\ NewDependencyStore(p, layout, frequency, FALSE)
    /\ readLegacyWithDataStream = TRUE
    /\ esIndices = {}
    /\ SamplingIdle
    /\ serviceCache = {}
    /\ DepIdle
    /\ NoWildcardCall
    /\ NoIndexWithDateCall

NextPlans ==
    \/ \E s \in TimePoints, e \in TimePoints :
          GetThroughput(s, e) /\ UNCHANGED <<serviceCache, depVars, nameVars>>
    \/ getReadIndicesStep /\ UNCHANGED <<serviceCache, depVars, nameVars>>
    \/ getReadIndicesReturn /\ UNCHANGED <<serviceCache, depVars, nameVars>>
    \/ /\ pc = "done"
       /\ GetDependencies(end, end - start)
       /\ UNCHANGED <<samplingVars, serviceCache, nameVars>>
    \/ depGetReadIndicesStep /\ UNCHANGED <<samplingVars, serviceCache, nameVars>>
    \/ depGetReadIndicesReturn /\ UNCHANGED <<samplingVars, serviceCache, nameVars>>
    \/ GetDependenciesReturn /\ Return /\ UNCHANGED <<serviceCache, nameVars>>

SpecPlans == InitPlans /\ [][NextPlans]_vars

----------------------------------------------------------------------------
(* Properties of the read plan of the sampling store *)

NoDuplicates(s) == \A i, j \in 1 .. Len(s) : i # j => s[i] # s[j]

\* the names of the dated periods that intersect [s, e]
CoveringNames(s, e) ==
    {IndexWithDate(samplingIndexPrefix, indexDateLayout, t) : t \in s .. e}

\* the longest distance, in hours, a walk of the model starts with
ReachSteps == 24 * (MaxDay + 1)

\* the loop of getReadIndices can still exit: some later value of the cursor
\* is formatted to firstIndex
WalkCanReach ==
    \E k \in 0 .. ReachSteps :
        IndexWithDate(samplingIndexPrefix, indexDateLayout,
                      endTime + k * indexRolloverFrequency) = firstIndex

DatedReadDone ==
    /\ pc = "done"
    /\ op = "GetThroughput"
    /\ ~useDataStream

\* C1: in dated-index mode, for start <= end and a rollover step directed
\* toward the past, the returned list holds the name of every dated period
\* that intersects [start, end] exactly once and no other name.
C1_ReadPlanExact ==
    (DatedReadDone /\ start <= end /\ indexRolloverFrequency < 0)
        => (NoDuplicates(indices) /\ Range(indices) = CoveringNames(start, end))

\* C2: the name getWriteIndex returned for a write at instant t is a member
\* of the read plan of every range with start <= t <= end, in dated-index
\* mode with a backward rollover step and in data-stream mode.
C2_WriteVisibleToRead ==
    (pc = "done" /\ op = "GetThroughput" /\ start <= end
       /\ (useDataStream \/ indexRolloverFrequency < 0))
        => \A t \in start .. end : getWriteIndex(t) \in Range(indices)

\* C3: for every rollover frequency, zero and wrong-signed ones included,
\* the read-plan computation ends after a bounded number of steps: while the
\* loop runs, a later value of its cursor still reaches the first index.
C3_ReadPlanTerminates ==
    pc = "walk" => WalkCanReach

\* C4: with a negative rollover frequency and start <= end the backward walk
\* terminates for every start and end: while the loop runs, a later value of
\* its cursor is still formatted to the first index.
C4_BackwardWalkTerminates ==
    (pc = "walk" /\ indexRolloverFrequency < 0 /\ start <= end) => WalkCanReach

\* C5: in data-stream mode with the migration gate disabled every read plan
\* (getReadIndices and getLatestIndices) is exactly [data-stream name].
C5_GateDisabledDataStreamOnly ==
    (pc = "done" /\ op \in {"GetThroughput", "GetLatestProbabilities"}
       /\ useDataStream /\ ~readLegacyWithDataStream)
        => indices = <<samplingIndexPrefix>>

legacySamplingWildcard ==
    <<"j", "a", "e", "g", "e", "r", "-", "s", "a", "m", "p", "l", "i", "n", "g",
      "-", "*">>

\* C6: in data-stream mode with the migration gate enabled getReadIndices
\* returns exactly [data-stream name, legacy wildcard of that name], in that
\* order, for every start, end and rollover frequency, and the date walk is
\* never entered: the cursor stays at end.
C6_GateEnabledDualRead ==
    useDataStream =>
        /\ pc # "walk"
        /\ (pc = "done" /\ op = "GetThroughput" /\ readLegacyWithDataStream) =>
              /\ Len(indices) = 2
              /\ indices[1] = samplingIndexPrefix
              /\ indices[2] = GetDataStreamLegacyWildcard(samplingIndexPrefix)
              /\ samplingIndexPrefix = samplingDataStreamName
                    => indices[2] = legacySamplingWildcard
              /\ endTime = end

C6_Witness ==
    /\ useDataStream
    /\ readLegacyWithDataStream
    /\ pc = "done"
    /\ op = "GetThroughput"
    /\ start < end
    /\ indexRolloverFrequency = 0
    /\ indices = <<samplingDataStreamName, legacySamplingWildcard>>

----------------------------------------------------------------------------
(* Properties of the write path *)

CallsOf(w, name) == {i \in 1 .. Len(wcalls[w]) : wcalls[w][i].call = name}

\* C7: two writers of the same not-yet-existing dated index both succeed: a
\* write that met no i/o failure returns no error and submits its documents,
\* also when the other writer created the index first.
C7_ConcurrentCreateBothSucceed ==
    \A w \in Writers :
        (wpc[w] = "done" /\ ~useReadWriteAliases /\ werr[w] # "io_error")
            => (werr[w] = "nil" /\ CallsOf(w, "Index") # {})

\* the dated name of a store with the given base name
DatedName(base, layout, ts) ==
    {p \o base \o <<"-">> \o Format(layout, ts) : p \in IndexPrefixes}

SamplingInsertDone ==
    /\ pc = "done"
    /\ op \in {"InsertThroughput", "InsertProbabilitiesAndQPS"}
    /\ ~useDataStream

\* every dated write of the dependency store targets the dated name of its
\* timestamp, after an existence check of that name and, were it absent, its
\* creation
DepWriteChecksIndex ==
    \A w \in Writers : \A i \in CallsOf(w, "Index") :
        ~useReadWriteAliases =>
            /\ wcalls[w][i].index \in DatedName(dependencyIndexBaseName,
                                                depIndexDateLayout, wts[w])
            /\ wcalls[w][1] = ClientCall("IndexExists", wcalls[w][i].index, "nil")
            /\ \/ i = 2
               \/ i = 3 /\ wcalls[w][2] = ClientCall("CreateIndex", wcalls[w][i].index, "nil")
            /\ wcalls[w][i].index \in esIndices

SamplingWriteTargetsDatedName ==
    SamplingInsertDone =>
        \A i \in 1 .. Len(requests) :
            requests[i].index \in DatedName(samplingIndexBaseName, indexDateLayout,
                                            requests[i].timestamp)

\* C8 as stated: in dated-index mode every write targets the dated name of
\* its timestamp and the store checks that this index exists before the
\* document is submitted, for WriteDependencies, InsertThroughput and
\* InsertProbabilitiesAndQPS.
C8_EveryDatedWriteChecksIndex ==
    /\ DepWriteChecksIndex
    /\ SamplingWriteTargetsDatedName
    /\ SamplingInsertDone =>
          \A i \in 1 .. Len(requests) : requests[i].index \in Range(checked)

\* C8 amended: in dated-index mode every write targets the dated name of its
\* timestamp; WriteDependencies checks that this index exists and creates it
\* when absent before the document is submitted, while InsertThroughput and
\* InsertProbabilitiesAndQPS submit without any existence check.
C8_DatedWriteTargets ==
    /\ DepWriteChecksIndex
    /\ SamplingWriteTargetsDatedName
    /\ SamplingInsertDone => checked = <<>>

C8_Witness ==
    /\ ~useReadWriteAliases
    /\ \E w \in Writers :
          /\ wpc[w] = "done"
          /\ Len(wcalls[w]) = 3
          /\ wcalls[w][3].call = "Index"
    /\ SamplingInsertDone
    /\ requests # <<>>

\* C9: when the existence check or the index creation of WriteDependencies
\* fails, the write returns that error, submits no document, and issues no
\* further call: at most one existence check and one create per write.
C9_FailurePropagates ==
    \A w \in Writers :
        /\ Cardinality(CallsOf(w, "IndexExists")) <= 1
        /\ Cardinality(CallsOf(w, "CreateIndex")) <= 1
        /\ \A i \in 1 .. Len(wcalls[w]) :
              wcalls[w][i].err # "nil" =>
                  /\ i = Len(wcalls[w])
                  /\ wpc[w] = "done"
                  /\ werr[w] = wcalls[w][i].err
                  /\ CallsOf(w, "Index") = {}

C9_Witness ==
    \E w \in Writers :
        /\ wpc[w] = "done"
        /\ Len(wcalls[w]) = 2
        /\ wcalls[w][2].call = "CreateIndex"
        /\ wcalls[w][2].err = "io_error"
        /\ werr[w] = "io_error"

\* C10: in data-stream mode every document write (sampling throughput,
\* sampling probabilities, service/operation record) is submitted with
\* operation type "create" and without a document id, whatever the major
\* version of the search engine.
C10_DataStreamCreateOnly ==
    useDataStream =>
        \A i \in 1 .. Len(requests) :
            requests[i].opType = "create" /\ requests[i].id = ""

C10_Witness ==
    /\ useDataStream
    /\ pc = "done"
    /\ op = "InsertThroughput"
    /\ Len(requests) = 2
    /\ requests[1].index = samplingDataStreamName
    /\ requests[1].opType = "create"

----------------------------------------------------------------------------
(* Properties of the data-stream write target *)

DataStreamInsertDone ==
    /\ pc = "done"
    /\ op \in {"InsertThroughput", "InsertProbabilitiesAndQPS"}
    /\ useDataStream

----------------------------------------------------------------------------
(* Properties of the latest-index scan of the sampling store *)

LatestScan ==
    /\ op = "GetLatestProbabilities"
    /\ pc \in {"scan", "done"}
    /\ ~useDataStream

LatestScanDone == LatestScan /\ pc = "done"

\* the instant the scan started at: the cursor before the steps it has taken
ScanStart ==
    now - (IF pc = "scan" THEN Len(checked) ELSE Len(checked) - 1)
            * indexRolloverFrequency

\* the names of the dated periods of the lookback window of the scan
WindowNames ==
    {IndexWithDate(samplingIndexPrefix, indexDateLayout, t) :
       t \in ScanStart - lookback .. ScanStart}

\* C12: in dated-index mode a scan that succeeds returns exactly one name,
\* which the cluster reported as existing, and every dated index of a later
\* period up to the start of the scan was checked and reported absent; and
\* when the index of the period of start - lookback exists, the scan does not
\* pass it by: it checks no name outside the lookback window.
C12_LatestIsMostRecent ==
    /\ (LatestScanDone /\ err = <<>>) =>
          /\ Len(indices) = 1
          /\ indices[1] \in esIndices
          /\ \A t \in now + 1 .. ScanStart :
                IndexWithDate(samplingIndexPrefix, indexDateLayout, t) # indices[1] =>
                   /\ IndexWithDate(samplingIndexPrefix, indexDateLayout, t)
                        \in Range(checked)
                   /\ IndexWithDate(samplingIndexPrefix, indexDateLayout, t)
                        \notin esIndices
    /\ (LatestScan /\ earliestIndex \in esIndices /\ "error" \notin Range(answers)) =>
          /\ \A i \in 1 .. Len(checked) : checked[i] \in WindowNames
          /\ pc = "done" => indices # <<>>

\* C13: in dated-index mode, when no index of the lookback window exists, the
\* scan ends with the not-found error after at most lookback / |frequency| + 1
\* existence checks, and it checks no name of a period before start - lookback.
C13_NotFoundWithinBound ==
    (LatestScan /\ esIndices \cap WindowNames = {} /\ "error" \notin Range(answers)) =>
        /\ \A i \in 1 .. Len(checked) : checked[i] \in WindowNames
        /\ indexRolloverFrequency # 0 =>
              Len(checked) * (IF indexRolloverFrequency < 0
                              THEN -indexRolloverFrequency ELSE indexRolloverFrequency)
                 <= lookback + (IF indexRolloverFrequency < 0
                                THEN -indexRolloverFrequency ELSE indexRolloverFrequency)
        /\ pc = "done" =>
              /\ indices = <<>>
              /\ err = Errorf("failed to get latest indices",
                              <<"falied to find latest index">>)

\* C14: once the context of the caller is done, the next existence check of
\* the scan is its last: the call returns, and with an error.
C14_DeadlineStopsScan ==
    [][(LatestScan /\ pc = "scan" /\ callerCtxDone /\ checked' # checked) =>
          (pc' = "done" /\ err' # <<>>)]_vars

\* a failed existence check ends the scan: it is the last check of the call,
\* the call has returned, and it has returned no name
FailedCheckEndsScan ==
    /\ pc = "done"
    /\ answers[Len(answers)] = "error"
    /\ \A i \in 1 .. Len(answers) - 1 : answers[i] = "false"
    /\ Len(checked) = Len(answers)
    /\ indices = <<>>

\* C15 as stated: a failed existence check ends the scan at once, with no
\* further check, no retry and no name returned, and the caller receives the
\* error of the client itself.
C15_ErrorReachesCallerUnmodified ==
    (LatestScan /\ "error" \in Range(answers)) =>
        /\ FailedCheckEndsScan
        /\ err = ioError

\* C15 amended: a failed existence check ends the scan at once, with no
\* further check, no retry and no name returned, and the caller receives the
\* error of the client wrapped twice: by getLatestIndices and by
\* GetLatestProbabilities.
C15_ErrorReachesCallerWrapped ==
    (LatestScan /\ "error" \in Range(answers)) =>
        /\ FailedCheckEndsScan
        /\ err = <<"failed to get latest indices", "failed to check index existence",
                   "io_error">>

C15_Witness ==
    /\ LatestScanDone
    /\ answers = <<"false", "error">>
    /\ indexRolloverFrequency = -24

\* C16: in data-stream mode a call of GetLatestProbabilities returns its
\* targets, the data stream first, without any call of IndexExists, whatever
\* the lookback and the rollover frequency.
C16_DataStreamNoExistenceCheck ==
    (useDataStream /\ op = "GetLatestProbabilities") =>
        /\ pc = "done"
        /\ checked = <<>>
        /\ answers = <<>>
        /\ err = <<>>
        /\ Len(indices) >= 1
        /\ indices[1] = samplingIndexPrefix

C16_Witness ==
    /\ useDataStream
    /\ op = "GetLatestProbabilities"
    /\ pc = "done"
    /\ lookback = 36
    /\ indexRolloverFrequency = 0

----------------------------------------------------------------------------
(* Properties of the legacy wildcard *)

\* whether an index pattern of a search selects a name: "*" stands for any
\* run of characters, every other character for itself
RECURSIVE WildcardMatches(_, _)
WildcardMatches(pattern, name) ==
    IF pattern = <<>> THEN name = <<>>
    ELSE IF Head(pattern) = "*"
    THEN \E k \in 0 .. Len(name) :
            WildcardMatches(Tail(pattern), SubSeq(name, k + 1, Len(name)))
    ELSE /\ name # <<>>
         /\ Head(name) = Head(pattern)
         /\ WildcardMatches(Tail(pattern), Tail(name))

\* C17: for every index prefix, the legacy wildcard a data-stream store of
\* that prefix places in its read plan selects every name a dated-index store
\* of the same prefix writes to.
C17_LegacyWildcardMatchesDatedWrites ==
    SamplingInsertDone =>
        \A p \in NamePrefixes :
           SamplingPrefix(p, FALSE) = samplingIndexPrefix =>
              \A i \in 1 .. Len(requests) :
                 WildcardMatches(DataStreamIndices(SamplingPrefix(p, TRUE))[2],
                                 requests[i].index)

WildcardCallDone == wildcardPattern # <<>>

\* C18: GetDataStreamLegacyWildcard returns, for every name, a pattern two
\* characters longer than the name: the name with its first "." turned into
\* "-" and every other character kept, later dots included, followed by "-*";
\* a name without "." is kept whole; "jaeger.span" gives "jaeger-span-*".
C18_FirstDotReplaced ==
    WildcardCallDone =>
        /\ Len(wildcardPattern) = Len(wildcardName) + 2
        /\ wildcardPattern[Len(wildcardName) + 1] = "-"
        /\ wildcardPattern[Len(wildcardName) + 2] = "*"
        /\ \A i \in 1 .. Len(wildcardName) :
              wildcardPattern[i] =
                 IF wildcardName[i] = "." /\ \A j \in 1 .. i - 1 : wildcardName[j] # "."
                 THEN "-" ELSE wildcardName[i]
        /\ wildcardName = spanDataStreamName =>
              wildcardPattern =
                 <<"j", "a", "e", "g", "e", "r", "-", "s", "p", "a", "n", "-", "*">>

C18_Witness ==
    /\ wildcardName = <<".", "a", ".">>
    /\ wildcardPattern = <<"-", "a", ".", "-", "*">>

\* C19: the legacy wildcard derived from a data-stream name does not select
\* that name, for every name; in the read plan of a data-stream store the
\* second target does not select the first.
C19_WildcardExcludesDataStream ==
    /\ WildcardCallDone => ~WildcardMatches(wildcardPattern, wildcardName)
    /\ (useDataStream /\ pc = "done" /\ op = "GetThroughput") =>
          \A i \in 2 .. Len(indices) : ~WildcardMatches(indices[i], indices[1])

C19_Witness ==
    /\ wildcardName = isolatedSpanDataStreamName
    /\ WildcardCallDone
    /\ useDataStream
    /\ pc = "done"
    /\ op = "GetThroughput"
    /\ Len(indices) = 2

----------------------------------------------------------------------------
(* Properties of the read plan of the dependency store *)

\* C20: in read/write-alias mode the read plan of the dependency store is
\* the single name prefix + "jaeger-dependencies" + "-read", whatever the end
\* timestamp, the lookback and the rollover frequency, and the date walk is
\* never entered.
C20_AliasReadPlan ==
    useReadWriteAliases =>
        /\ depPc # "walk"
        /\ depPc = "done" =>
              /\ depFirstIndex = <<>>
              /\ depCurrentIndex = <<>>
              /\ \E p \in IndexPrefixes :
                    depIndices =
                       <<p \o dependencyIndexBaseName \o <<"-", "r", "e", "a", "d">>>>

C20_Witness ==
    /\ useReadWriteAliases
    /\ depPc = "done"
    /\ depIndexRolloverFrequency = 0
    /\ depLookback = 48
    /\ depEndTs = 71
    /\ Len(depIndices) = 1

----------------------------------------------------------------------------
(* Properties of the write target of the dependency store *)

\* C21: in read/write-alias mode every call the dependency store makes for a
\* write is the submission of the document to prefix + "jaeger-dependencies" +
\* "-write", whatever the timestamp: no IndexExists and no CreateIndex call
\* is issued, and the write returns without error.
C21_AliasWriteTarget ==
    useReadWriteAliases =>
        \A w \in Writers :
           /\ wpc[w] \notin {"exists", "create"}
           /\ CallsOf(w, "IndexExists") = {}
           /\ CallsOf(w, "CreateIndex") = {}
           /\ \E p \in IndexPrefixes :
                 /\ wpc[w] # "idle" =>
                       windexName[w] =
                          p \o dependencyIndexBaseName \o <<"-", "w", "r", "i", "t", "e">>
                 /\ \A i \in 1 .. Len(wcalls[w]) : wcalls[w][i].index = windexName[w]
           /\ wpc[w] = "done" => (Len(wcalls[w]) = 1 /\ werr[w] = "nil")

C21_Witness ==
    /\ useReadWriteAliases
    /\ wpc[1] = "done"
    /\ wts[1] = 25
    /\ wpc[2] = "done"
    /\ wts[2] = 1
    /\ wcalls[1] = wcalls[2]

----------------------------------------------------------------------------
(* Properties of the read plans of the two stores *)

SamePeriod(prefix, layout, t1, t2) ==
    IndexWithDate(prefix, layout, t1) = IndexWithDate(prefix, layout, t2)

\* C22: in dated-index mode, when start and end lie in the same dated period
\* the loop of the read plan is never entered and the plan is exactly the
\* name of that period, in the sampling store and in the dependency store,
\* whatever the rollover frequency.
C22_SamePeriodSingleName ==
    /\ (op = "GetThroughput" /\ ~useDataStream
          /\ SamePeriod(samplingIndexPrefix, indexDateLayout, start, end)) =>
          /\ pc = "walk" => indices = <<>>
          /\ pc = "done" =>
                indices = <<IndexWithDate(samplingIndexPrefix, indexDateLayout, start)>>
    /\ (~useReadWriteAliases
          /\ SamePeriod(dependencyIndexPrefix, depIndexDateLayout,
                        depEndTs - depLookback, depEndTs)) =>
          /\ depPc = "walk" => depIndices = <<>>
          /\ depPc = "done" =>
                depIndices = <<IndexWithDate(dependencyIndexPrefix, depIndexDateLayout,
                                             depEndTs - depLookback)>>

C22_Witness ==
    /\ pc = "done"
    /\ start = 24
    /\ end = 47
    /\ indexDateLayout = DailyLayout
    /\ indexRolloverFrequency = 0
    /\ Len(indices) = 1
    /\ depPc = "done"
    /\ depEndTs = 47
    /\ depLookback = 23
    /\ Len(depIndices) = 1

\* C23: with a step of one day back and the daily layout, the read plan of
\* the sampling store lists one name per day from the day of end down to the
\* day of start: the first is the name of end, the last the name of start,
\* and each one is the name of the day before its predecessor.
C23_NewestToOldest ==
    (DatedReadDone /\ indexRolloverFrequency = -24 /\ indexDateLayout = DailyLayout) =>
        /\ indices[1] = IndexWithDate(samplingIndexPrefix, indexDateLayout, end)
        /\ indices[Len(indices)] =
              IndexWithDate(samplingIndexPrefix, indexDateLayout, start)
        /\ Len(indices) = DayOf(end) - DayOf(start) + 1
        /\ \A i \in 1 .. Len(indices) :
              indices[i] =
                 IndexWithDate(samplingIndexPrefix, indexDateLayout,
                               24 * (DayOf(end) - (i - 1)))

\* start 2025-01-01T00:00Z, end 2025-01-03T23:00Z: the names of 01-03, 01-02
\* and 01-01 in that order
C23_Witness ==
    /\ DatedReadDone
    /\ indexRolloverFrequency = -24
    /\ start = 0
    /\ end = 71
    /\ indices =
         <<samplingIndexBaseName
             \o <<"-", "2", "0", "2", "5", "-", "0", "1", "-", "0", "3">>,
           samplingIndexBaseName
             \o <<"-", "2", "0", "2", "5", "-", "0", "1", "-", "0", "2">>,
           samplingIndexBaseName
             \o <<"-", "2", "0", "2", "5", "-", "0", "1", "-", "0", "1">>>>

----------------------------------------------------------------------------
(* Properties of the dated names *)

\* the length in hours of the period one name of the layout stands for
Granularity(layout) == IF layout = HourlyLayout THEN 1 ELSE 24

\* the length in hours of a rollover period
RolloverStep ==
    IF indexRolloverFrequency < 0 THEN -indexRolloverFrequency
    ELSE indexRolloverFrequency

\* the rollover period of an instant, periods counted from 2025-01-01T00:00Z
RolloverPeriod(t) == t \div RolloverStep

\* the instants that get the name the write in progress went to
SameNameAsWrite(t) ==
    \A i \in 1 .. Len(requests) : getWriteIndex(t) = requests[i].index

C25_DistinctPeriodsDistinctNames ==
    (SamplingInsertDone /\ RolloverStep # 0) =>
        \A t \in TimePoints :
           (t - now >= RolloverStep \/ now - t >= RolloverStep) =>
              \A i \in 1 .. Len(requests) : getWriteIndex(t) # requests[i].index

IndexWithDateCallDone == dateLayout # <<>>

\* C26: IndexWithDate returns the prefix followed by the date of the instant
\* in UTC, formatted by the layout; every representation of the same instant,
\* whatever its zone and its local calendar day, gets the same name; and
\* 2025-01-01T00:00Z with prefix "jaeger-span-" and the daily layout gives
\* "jaeger-span-2025-01-01".
C26_NameDependsOnInstantOnly ==
    IndexWithDateCallDone =>
        /\ dateName = datePrefix \o Format(dateLayout, dateArg.instant)
        /\ dateName = IndexWithDate(datePrefix, dateLayout, dateArg.instant)
        /\ \A o \in ZoneOffsets :
              IndexWithDateOfTime(datePrefix, dateLayout, Time(dateArg.instant, o))
                 = dateName
        /\ (datePrefix = spanIndexPrefix /\ dateLayout = DailyLayout
              /\ dateArg.instant = 0) =>
              dateName = spanIndexPrefix
                           \o <<"2", "0", "2", "5", "-", "0", "1", "-", "0", "1">>

\* 2025-01-01T23:00Z expressed at +09:00, where it is 08:00 of 2025-01-02
C26_Witness ==
    /\ IndexWithDateCallDone
    /\ dateArg = Time(23, 9)
    /\ dateLayout = DailyLayout
    /\ TimeFormat(dateArg, DailyLayout) = <<"2", "0", "2", "5", "-", "0", "1", "-", "0", "2">>
    /\ dateName = spanIndexPrefix
                    \o <<"2", "0", "2", "5", "-", "0", "1", "-", "0", "1">>

----------------------------------------------------------------------------
(* Properties of the service/operation writer *)

\* the cache key of the write of "service" / "operation" at instant ts
ServiceKey(ts) ==
    <<serviceWriteIndex(NoPrefix, ts), ServiceHash("service", "operation")>>

\* C27: the cache of the process only grows; a write of a service and
\* operation whose key is in the cache submits no request, and a write whose
\* key is not in the cache submits exactly one request and puts the key in
\* the cache, so that no later write of it submits another; in data-stream
\* mode the one request submitted carries no document id.
C27_CacheSuppressesRepeatedWrite ==
    [][/\ serviceCache \subseteq serviceCache'
       /\ (pc = "idle" /\ pc' = "done" /\ op' = "writeService") =>
             /\ ServiceKey(now') \in serviceCache =>
                   (requests' = <<>> /\ serviceCache' = serviceCache)
             /\ ServiceKey(now') \notin serviceCache =>
                   /\ Len(requests') = 1
                   /\ requests'[1].index = ServiceKey(now')[1]
                   /\ ServiceKey(now') \in serviceCache'
                   /\ useDataStream => requests'[1].id = ""]_vars

C27_Witness ==
    /\ pc = "done"
    /\ op = "writeService"
    /\ useDataStream
    /\ requests = <<>>
    /\ ServiceKey(now) \in serviceCache

----------------------------------------------------------------------------
(* Properties of the configuration of the stores *)

\* C28: no step of any operation of the stores changes the index prefix, the
\* date layout, the rollover frequency, the lookback or the mode flag of
\* either store: they keep the values set at construction.
C28_ConfigurationNeverMutated ==
    [][/\ samplingIndexPrefix' = samplingIndexPrefix
       /\ indexDateLayout' = indexDateLayout
       /\ indexRolloverFrequency' = indexRolloverFrequency
       /\ lookback' = lookback
       /\ useDataStream' = useDataStream
       /\ dependencyIndexPrefix' = dependencyIndexPrefix
       /\ depIndexDateLayout' = depIndexDateLayout
       /\ depIndexRolloverFrequency' = depIndexRolloverFrequency
       /\ useReadWriteAliases' = useReadWriteAliases]_vars

\* a read plan computed after a write of the service writer and whatever
\* came before it
C28_Witness ==
    /\ pc = "done"
    /\ op = "GetThroughput"
    /\ serviceCache # {}
    /\ Len(indices) = 3
    /\ \E p \in IndexPrefixes : samplingIndexPrefix = SamplingPrefix(p, useDataStream)

----------------------------------------------------------------------------
(* Properties of the walks of the two stores taken together *)

\* the loop of DependencyStore.getReadIndices can still exit: some later
\* value of its cursor is formatted to depFirstIndex
DepWalkCanReach ==
    \E k \in 0 .. ReachSteps :
        IndexWithDate(dependencyIndexPrefix, depIndexDateLayout,
                      depCursor - k * depIndexRolloverFrequency) = depFirstIndex

\* the date suffixes of a plan: its names without the prefix
Suffixes(plan, prefix) ==
    [i \in 1 .. Len(plan) |-> SubSeq(plan[i], Len(prefix) + 1, Len(plan[i]))]

\* C29: built with one and the same negative rollover frequency, the
\* dependency store walks like the sampling store: its cursor never moves
\* past end, its loop can still exit while it runs, and for the same range
\* it returns the date suffixes the sampling store returned.
C29_SameSignConvention ==
    (indexRolloverFrequency < 0 /\ depIndexRolloverFrequency = indexRolloverFrequency
       /\ pc = "done" /\ op = "GetThroughput" /\ start <= end) =>
        /\ depPc = "walk" => (depCursor <= depEndTs /\ DepWalkCanReach)
        /\ depPc = "done" =>
              Suffixes(depIndices, dependencyIndexPrefix)
                 = Suffixes(indices, samplingIndexPrefix)

\* C30: with a step of one period of the layout in the direction each store
\* walks in, the read plan ends for every pair of timestamps and for every
\* lookback: while the loop of GetThroughput or of GetDependencies runs, it
\* can still exit.
C30_TerminatesForEveryRange ==
    /\ (pc = "walk" /\ indexRolloverFrequency = -Granularity(indexDateLayout)) =>
          WalkCanReach
    /\ (depPc = "walk" /\ depIndexRolloverFrequency = Granularity(depIndexDateLayout)) =>
          DepWalkCanReach

====
